CONSTANTS
    t1 = t1
    t2 = t2
    Tags = {t1, t2}
    Log <- MCLog
    BatchSize = 3
    MaxFaults = 2
    Rebalances = FALSE
SPECIFICATION FairSpec
CHECK_DEADLOCK FALSE
PROPERTIES
    AtLeastOnce
    CatchesUp
INVARIANT CommittedIsPersisted
