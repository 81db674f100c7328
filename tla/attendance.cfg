\* One page, lost answers, an offline browser, a moving window, three form saves.
SPECIFICATION Spec
CONSTANTS
    Drafts = {d1}
    Requests = {q1, q2}
    Editors = {e1, e2, e3}
    Enders = {x1}
    MaxTime = 2
    Windows <- MCWindows
    Kept = 2
    ServerStops = FALSE
SYMMETRY Symmetry
INVARIANTS EntriesInTime SubmittedIsKept DuplicateNeedsLostAnswer FormVersionsStand
CHECK_DEADLOCK FALSE
