SPECIFICATION FairSpec
CONSTANTS
    duty = duty  chief = chief  r1 = r1  r2 = r2  t1 = t1  t2 = t2  None = None
    Tags = {t1, t2}
    Chats <- MCChats
    Admins = {chief}
    Threshold <- MCThreshold
    Replicas = {r1, r2}
    Home = r1
    MaxAttempts = 2
    Tries = 2
    BatchLimit = 2
    RouteSchema = TRUE
    Workloads <- MCWorkloads
    MaxDepth = 2
INVARIANTS
    NoEventDropped
    HeardOnce
    EscalationKept
PROPERTY Settles
CHECK_DEADLOCK FALSE
