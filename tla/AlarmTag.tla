------------------------------ MODULE AlarmTag ------------------------------
(***************************************************************************)
(* One tag and its alarm state under an arbitrary signal: every reading is *)
(* put through EvaluateAlarmState with the state it left before, and the   *)
(* setpoints may be edited between two readings (the alarm state is not    *)
(* re-evaluated then: HandleTagConfigChanged only replaces the setpoints). *)
(***************************************************************************)
EXTENDS AlarmEvaluator

CONSTANTS
    Values,         \* the values a reading may carry; NoLevel for a null value
    ValidSetpoints  \* the setpoints an editor may give the tag

\* ms-editor rejects setpoints that are not strictly ordered.
Below(a, b) == a # NoLevel /\ b # NoLevel => a < b
Validated(sp) ==
    /\ Below(sp.lolo, sp.lo) /\ Below(sp.lolo, sp.hi) /\ Below(sp.lolo, sp.hihi)
    /\ Below(sp.lo, sp.hi)   /\ Below(sp.lo, sp.hihi)
    /\ Below(sp.hi, sp.hihi)

ASSUME ValuesAssumption == Values \subseteq Level
ASSUME ValidSetpointsAssumption ==
    /\ ValidSetpoints \subseteq Setpoints
    /\ \A sp \in ValidSetpoints : Validated(sp)

VARIABLES
    sp,       \* the tag's setpoints
    state,    \* its alarm state
    value,    \* the value and the quality of the last reading evaluated
    quality,
    settled,  \* no reading evaluated since the setpoints were last edited
    raisedAt  \* the value that raised the present state under these setpoints,
              \* NoLevel if the setpoints were edited since

tagVars == <<sp, state, value, quality, settled, raisedAt>>

TagInit ==
    /\ sp \in ValidSetpoints
    /\ state = "ok"
    /\ value = NoLevel
    /\ quality = "ok"
    /\ settled = FALSE
    /\ raisedAt = NoLevel

\* IngestValue for this tag, the persistence left out.
Read(v, q) ==
    LET next == Evaluate(state, v, q, sp)
    IN  /\ state' = next
        /\ raisedAt' = IF next # state THEN v ELSE raisedAt
        /\ value' = v
        /\ quality' = q
        /\ settled' = TRUE
        /\ UNCHANGED sp

ReplaceSetpoints ==
    /\ sp' \in ValidSetpoints \ {sp}
    /\ settled' = FALSE
    /\ raisedAt' = NoLevel
    /\ UNCHANGED <<state, value, quality>>

TagNext ==
    \/ \E v \in Values, q \in Qualities : Read(v, q)
    \/ ReplaceSetpoints

TagSpec == TagInit /\ [][TagNext]_tagVars

-----------------------------------------------------------------------------
TagTypeOK ==
    /\ sp \in ValidSetpoints
    /\ state \in AlarmStates
    /\ value \in Level
    /\ quality \in Qualities
    /\ settled \in BOOLEAN
    /\ raisedAt \in Level

\* The level states whose threshold the value has passed.
Crossed ==
    {s \in HighStates : Reaches(value, sp[s])} \cup {s \in LowStates : FallsTo(value, sp[s])}

GoodReading == settled /\ quality \notin QualityStates /\ value # NoLevel

\* A level alarm always has a reason in the setpoints of the moment: after a
\* good reading the tag is in a level state only if the value is past a
\* threshold of that side, or within the margin of its outermost one.  The
\* memory of the previous state never outlives the threshold that raised it.
LevelAlarmJustified ==
    GoodReading =>
        /\ state \in HighStates =>
             \/ Crossed \cap HighStates # {}
             \/ /\ FirstLevel(sp.hihi, sp.hi) # NoLevel
                /\ 100 * FirstLevel(sp.hihi, sp.hi) - 100 * value < Margin(sp)
        /\ state \in LowStates =>
             \/ Crossed \cap LowStates # {}
             \/ /\ FirstLevel(sp.lolo, sp.lo) # NoLevel
                /\ 100 * value - 100 * FirstLevel(sp.lolo, sp.lo) < Margin(sp)

\* No chatter: a level alarm is cleared only once the value is at least the
\* hysteresis margin away from the one that raised it under these setpoints
\* (the purpose of the hysteresis: specs/0033, rule 4).  That is so on a side
\* with one threshold; with both, the margin is measured from the outer one
\* (alarm_evaluator.go:79,86), and an inner alarm has no hysteresis at all.
OneThreshold ==
    /\ state \in HighStates => NoLevel \in {sp.hi, sp.hihi}
    /\ state \in LowStates => NoLevel \in {sp.lo, sp.lolo}

ClearedAfterMargin ==
    [][ (/\ state \in HighStates \cup LowStates
         /\ OneThreshold
         /\ raisedAt # NoLevel
         /\ state' = "ok")
        => Abs(100 * raisedAt - 100 * value') >= Margin(sp) ]_tagVars

=============================================================================
