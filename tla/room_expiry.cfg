\* Two servers poll one room while a request changes it.
SPECIFICATION FairSpec
CONSTANTS
    Requests = {r1}
    Pollers = {p1, p2}
    MaxTime = 3
    Lookback = 1
    ServerStops = TRUE
    PollsOutliveLock = FALSE
INVARIANTS ExpiryRetoldOnlyIfUnmarked
PROPERTIES ExpiredIsAnnounced
CHECK_DEADLOCK FALSE
