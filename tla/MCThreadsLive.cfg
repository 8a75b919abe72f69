SPECIFICATION FairSpec
CONSTANTS
    main = main
    t1 = t1
    t2 = t2
    Threads = {main, t1}
    Main = main
    Mutexes = {m1}
    Condvars = {c1}
    Values = {inert}
    Inert = inert
    ErrorObj = inert
    MaxCount = 2
    SharesContinuations = TRUE
    Nil = nil
PROPERTIES OnlyProgramDeadlocks
CHECK_DEADLOCK FALSE
