SPECIFICATION Spec
CONSTANTS
    main = main
    t1 = t1
    p = p
    q = q
    r = r
    v = v
    w = w
    Unmade = Unmade
    Undetermined = Undetermined
    NoObject = NoObject
    Threads = {main, t1}
    Promises = {p, q}
    Values = {v, w}
    MaxForces = 2
    MaxHeld = 1
SYMMETRY Symmetry
INVARIANTS SameValueForever
PROPERTIES Implements
CHECK_DEADLOCK FALSE
