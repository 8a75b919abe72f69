SPECIFICATION Spec
CONSTANTS
    main = main
    t1 = t1
    t2 = t2
    Threads = {main, t1, t2}
    Main = main
    Mutexes = {m1}
    Condvars = {c1}
    Values = {inert}
    Inert = inert
    ErrorObj = inert
    MaxCount = 2
    SharesContinuations = FALSE
    Nil = nil
SYMMETRY Symmetry
INVARIANTS TypeOK GilOnce OwnerAgrees NoLostWakeup JoinersAwaitTheLiving LiveRooted
PROPERTIES KeepsPromise OutcomeFrozen
CHECK_DEADLOCK FALSE
