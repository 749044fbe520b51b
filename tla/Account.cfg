SPECIFICATION Spec
CONSTANTS
    Account = {ann, bob}
    Nobody = Nobody
    MaxRequests = 2
    MaxBlocks = 1
    MaxEvents = 1
INVARIANT
    TypeOK
    NoErrorHasCause
    PageKnowsUser
    NamelessHasCause
    NoNameHasCause
PROPERTY
    SignInOpensSettings
CHECK_DEADLOCK FALSE
