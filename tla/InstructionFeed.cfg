SPECIFICATION Spec
CONSTANTS
    p1 = p1
    p2 = p2
    p3 = p3
    soup = soup
    curry = curry
    EmptyList = EmptyList
    Page <- MCPage
    Recipe <- MCRecipe
INVARIANTS
    TypeOK
    LinkFollowsCache
PROPERTY
    EveryPageSettles
