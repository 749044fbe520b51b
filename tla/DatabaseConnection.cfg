SPECIFICATION Spec
CONSTANTS
    MaxEvents = 2
    MaxPuts = 2
    MaxGets = 1
    WholeWrites = {2}
INVARIANT
    TypeOK
    AssertionsHold
    TriesUnlessInterrupted
    ReadsFollowWrites
    LinkSpeaksForUser
PROPERTY
    RefusedTokenNotReused
    ImplementsOutbox
    RequestsEnd
CHECK_DEADLOCK FALSE
