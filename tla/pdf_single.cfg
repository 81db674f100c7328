\* One handler at a time per message: crashes, failed writes, redrive, drain.
SPECIFICATION FairSpec
CONSTANTS
    Jobs = {j1}
    Workers = {w1, w2}
    MaxAttempts = 3
    MaxReceives = 4
    Visibility = 5
    StaleAfter = 3
    DuplicateReceives = FALSE
INVARIANTS NoStrandedJob RedeliveryFindsStale FailureToldIffFailed
PROPERTIES EveryJobEnds
