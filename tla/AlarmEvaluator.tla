--------------------------- MODULE AlarmEvaluator ---------------------------
(***************************************************************************)
(* The pure alarm evaluator of ms-viewer (internal/domain/alarm_evaluator). *)
(*                                                                         *)
(* Values and setpoints are integers; the Go code uses float64.  The       *)
(* hysteresis margin is span * percent / 100 in the code: both sides of    *)
(* every comparison are multiplied by 100 here, so no division is needed   *)
(* and "value > threshold - margin" keeps its meaning.                     *)
(***************************************************************************)
EXTENDS Integers

CONSTANTS
    NoLevel,            \* a setpoint, or a value, that is nil in the code
    HysteresisPercent   \* AlarmUseCase.hysteresisPercent (default 2)

ASSUME NoLevelAssumption == NoLevel \notin Int
ASSUME PercentAssumption == HysteresisPercent \in Nat \ {0}

\* domain.AlarmState: the codes 0..8 of the states table, by name.
HighStates    == {"hi", "hihi"}
LowStates     == {"lo", "lolo"}
QualityStates == {"uncertain", "bad", "comm_loss", "offline"}
AlarmStates   == {"ok"} \cup HighStates \cup LowStates \cup QualityStates

\* What ParseQuality accepts.  Four of the qualities name an alarm state; a
\* reading of any other quality is evaluated against the setpoints.
Qualities == {"ok", "hi", "hihi", "acknowledged"} \cup QualityStates

Level     == Int \cup {NoLevel}
Setpoints == [lolo : Level, lo : Level, hi : Level, hihi : Level]

NoSetpoints == [lolo |-> NoLevel, lo |-> NoLevel, hi |-> NoLevel, hihi |-> NoLevel]

Reaches(value, level) == level # NoLevel /\ value >= level
FallsTo(value, level) == level # NoLevel /\ value <= level

\* resolveAlarmState, with the order of its tests.
Resolve(value, quality, sp) ==
    IF quality \in QualityStates THEN quality
    ELSE IF value = NoLevel THEN "bad"
    ELSE IF Reaches(value, sp.hihi) THEN "hihi"
    ELSE IF Reaches(value, sp.hi) THEN "hi"
    ELSE IF FallsTo(value, sp.lolo) THEN "lolo"
    ELSE IF FallsTo(value, sp.lo) THEN "lo"
    ELSE "ok"

Abs(n) == IF n < 0 THEN -n ELSE n

\* The span of a pair of setpoints; 0 when one of them is not set.
Span(high, low) ==
    IF high # NoLevel /\ low # NoLevel THEN Abs(high - low) ELSE 0

\* hysteresisMargin, in hundredths of the value's unit: a share of the outer
\* span, else of the inner one, else of one unit.
Margin(sp) ==
    HysteresisPercent *
        (IF Span(sp.hihi, sp.lolo) > 0 THEN Span(sp.hihi, sp.lolo)
         ELSE IF Span(sp.hi, sp.lo) > 0 THEN Span(sp.hi, sp.lo)
         ELSE 1)

OuterOnly(a, b) == a                                            \* mutant
FirstLevel(a, b) == IF a # NoLevel THEN a ELSE b

KeepsAlarm(prev, next, value, sp) ==                            \* mutant
    next = "ok" /\ value # NoLevel /\ prev \in HighStates \cup LowStates

\* shouldKeepPreviousByHysteresis: only on the way to ok, measured from the
\* outermost threshold that is set.
KeepsPrevious(prev, next, value, sp) ==
    /\ next = "ok"
    /\ value # NoLevel
    /\ \/ /\ prev \in HighStates
          /\ FirstLevel(sp.hihi, sp.hi) # NoLevel
          /\ 100 * value > 100 * FirstLevel(sp.hihi, sp.hi) - Margin(sp)
       \/ /\ prev \in LowStates
          /\ FirstLevel(sp.lolo, sp.lo) # NoLevel
          /\ 100 * value < 100 * FirstLevel(sp.lolo, sp.lo) + Margin(sp)

\* EvaluateAlarmState: the state after the reading.  The code's second result,
\* changed, is Evaluate(...) # prev.
Evaluate(prev, value, quality, sp) ==
    LET next == Resolve(value, quality, sp)
    IN  IF next # prev /\ KeepsPrevious(prev, next, value, sp) THEN prev ELSE next

=============================================================================
