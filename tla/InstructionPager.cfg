SPECIFICATION Spec
CONSTANTS
    MaxRows = 4
    ContextSet = TRUE
CHECK_DEADLOCK FALSE
INVARIANTS
    TypeOK
    TrapsOnlyInLoading
    TitleMatchesOnceTapped
