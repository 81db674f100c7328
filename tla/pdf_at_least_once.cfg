\* Two handlers at once for one message: lost heartbeats, late deletes, duplicates.
SPECIFICATION Spec
CONSTANTS
    Jobs = {j1}
    Workers = {w1, w2}
    MaxAttempts = 3
    MaxReceives = 3
    Visibility = 2
    StaleAfter = 1
    DuplicateReceives = TRUE
INVARIANTS FailedIsTold
PROPERTIES OnlyCatchUndoesCompletion
