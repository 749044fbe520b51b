SPECIFICATION Spec
CONSTANTS
    MaxEvents = 1
    MaxPuts = 1
    MaxGets = 1
    WholeWrites = {}
PROPERTY
    EveryReadIsAnswered
CHECK_DEADLOCK FALSE
