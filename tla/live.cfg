\* Two publishers' pages with two requests; a notice on its way to a page that
\* watches, its stream dropping and opening again; one restart.
SPECIFICATION FairSpec
CONSTANTS
    Pages = {p1, p2}
    Requests = {r1, r2}
    Notices = {n1}
    MaxStops = 1
    Apart = TRUE
INVARIANTS CompletedHasStopped EveryLeaverIsReported
PROPERTIES EveryNoticeIsShown
CHECK_DEADLOCK FALSE
