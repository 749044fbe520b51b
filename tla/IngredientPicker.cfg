SPECIFICATION Spec
CONSTANTS
    MaxRows = 4
    Height = 2
    MaxTaps = 2
CHECK_DEADLOCK FALSE
INVARIANTS
    TypeOK
    MarksAreWishesUnlessScrolled
    FailureLeavesInitialPart
PROPERTIES
    TapSavesWhatIsChecked
    IngredientsSettle
