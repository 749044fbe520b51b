SPECIFICATION Spec
CONSTANTS
    toast = toast
    salad = salad
    stew = stew
    EmptyList = EmptyList
    List <- MCList
    StepCount <- MCStepCount
INVARIANTS
    TypeOK
    CrashHasCause
    ButtonsMatchUnlessClashed
    LabelsAgreeUnlessClashed
PROPERTY
    ReceivedIsShown
