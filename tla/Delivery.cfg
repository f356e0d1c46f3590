SPECIFICATION FairSpec
CONSTANTS
    l1 = l1  l2 = l2  g1 = g1  g2 = g2  Gone = Gone
    Loads = {l1, l2}
    Timers = {g1, g2}
    Workloads <- MCWorkloads
INVARIANTS
    SubscribedIsCurrent
    NothingLeftBehind
PROPERTY
    Converges
CHECK_DEADLOCK FALSE
