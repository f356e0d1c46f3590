CONSTANTS
    t1 = t1
    t2 = t2
    None = None
    NoLevel <- None
    HysteresisPercent = 2
    Tags = {t1, t2}
    NoTag = NoTag
    NoRow = NoRow
    NoEvent = NoEvent
    Deleted = Deleted
    Readings <- MCFewReadings
    SetpointChoices <- MCOneSetpoint
    Failures = {FALSE}
    MaxReadings = 2
    MaxEdits = 1
SPECIFICATION FairSpec
CHECK_DEADLOCK FALSE
PROPERTY SilentTagsDetected
