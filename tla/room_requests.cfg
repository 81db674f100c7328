\* Two requests of any kind, with polls.
SPECIFICATION Spec
CONSTANTS
    Requests = {r1, r2}
    Pollers = {p1}
    MaxTime = 1
    Lookback = 1
    ServerStops = TRUE
    PollsOutliveLock = FALSE
SYMMETRY Symmetry
INVARIANTS OneStandingNotice NoticeIffMarked
PROPERTIES DeletedIsFrozen
CHECK_DEADLOCK FALSE
