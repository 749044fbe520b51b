SPECIFICATION Spec
CONSTANTS
    p1 = p1
    p2 = p2
    toast = toast
    salad = salad
    EmptyList = EmptyList
    Page <- MCPage
    Recipe <- MCRecipe
    StepCount <- MCStepCount
INVARIANT
    LinkAheadOfWatch
PROPERTY
    ImplementsShelf
