SPECIFICATION Spec
CONSTANTS
    Start <- StartFacts
    Entry <- EntryPages
    Others <- OtherFacts
    MaxChoices = 3
INVARIANTS
    TypeOK
    OfferedIsGranted
    SettledIsCurrent
PROPERTIES ComesToRest
CHECK_DEADLOCK FALSE
