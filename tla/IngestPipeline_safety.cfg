CONSTANTS
    t1 = t1
    t2 = t2
    Tags = {t1, t2}
    Log <- MCLogWithUnparseable
    BatchSize = 3
    MaxFaults = 2
    Rebalances = TRUE
SPECIFICATION Spec
CHECK_DEADLOCK FALSE
INVARIANTS
    TypeOK
    PendingMatchesBuffer
    ShownIsPersisted
    EventIsPersisted
    CommittedSinceSkip
