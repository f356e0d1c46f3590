SPECIFICATION MembershipSpec
CONSTANTS
    Connections = {c1}
    Tags = {t1, t2}
    Topics = {g1, g2}
    Objects = {g1}
    NoTopic = NoTopic
    NoTag = NoTag
    Gone = Gone
    Uncached = Uncached
    NoEvent = NoEvent
    MaxSubscriptions = 1
    MaxFrame = 1
    MaxDeletions = 2
    MaxEdits = 2
SYMMETRY Symmetry
CONSTRAINT TopicsOnly
CHECK_DEADLOCK FALSE
INVARIANTS
    RefsMatch
    LimitRespected
    MembershipFollows
