SPECIFICATION Spec
CONSTANTS
    MaxRows = 2
    ContextSet = FALSE
CHECK_DEADLOCK FALSE
INVARIANT
    ShowsSavedInstructions
