SPECIFICATION DSpec
CONSTANTS
    main = main
    v1 = v1
    v2 = v2
    Threads = {main}
    MaxDepth = 9
    MaxExtents = 2
    MaxHeld = 1
    Selective = TRUE
    Values = {v1, v2}
SYMMETRY Symmetry
INVARIANT InnermostExtentRules
PROPERTIES ExitsIntercepted EntriesIntercepted
CHECK_DEADLOCK FALSE
