SPECIFICATION Spec
CONSTANTS
    s1 = s1
    s2 = s2
    s3 = s3
    Search <- MCSearch
    MaxHits = 2
CHECK_DEADLOCK FALSE
INVARIANT
    TapOpensHighlight
