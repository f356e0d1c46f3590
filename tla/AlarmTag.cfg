CONSTANTS
    None = None
    NoLevel <- None
    HysteresisPercent = 40
    Values <- MCValues
    ValidSetpoints <- MCAllSetpoints
SPECIFICATION TagSpec
INVARIANTS
    LevelAlarmJustified
PROPERTY ClearedAfterMargin
