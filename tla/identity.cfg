SPECIFICATION Spec
CONSTANTS
    Requests = {r1, r2}
    Tokens = {t1, t2, t3}
    Links = {l1}
    MaxSent = 3
    MaxPassword = 1
SYMMETRY Symmetry
CHECK_DEADLOCK FALSE
INVARIANTS OnlyVerifiedSignIn AlarmIsTrue LinkUsedOnce
PROPERTY OnlyWritesMakeStale
