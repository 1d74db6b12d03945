SPECIFICATION Spec
CONSTANTS
    NNodes = 3
    MaxSearches = 1
INVARIANT SelectorsAsDocumented
\* The searches are bounded.
CHECK_DEADLOCK FALSE
