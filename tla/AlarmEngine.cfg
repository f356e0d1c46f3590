CONSTANTS
    t1 = t1
    None = None
    NoLevel <- None
    HysteresisPercent = 2
    Tags = {t1}
    NoTag = NoTag
    NoRow = NoRow
    NoEvent = NoEvent
    Deleted = Deleted
    Readings <- MCReadings
    SetpointChoices <- MCSetpointChoices
    Failures = {TRUE, FALSE}
    MaxReadings = 3
    MaxEdits = 2
SPECIFICATION Spec
CHECK_DEADLOCK FALSE
INVARIANTS
    TypeOK
    ActiveAlarmRaised
    SetpointsCurrent
PROPERTY EveryChangeRecorded
