SPECIFICATION FairSpec
CONSTANTS
    Requests = {r1, r2}
    Jobs = {j1}
    Conns = {c1, c2}
    SharedPool = TRUE
CHECK_DEADLOCK FALSE
INVARIANTS ConnectionsAreExclusive ReleasedOnce OnlyAbandonedHandlersStray
PROPERTIES NestedWaitEnds ConnectionsComeBack
