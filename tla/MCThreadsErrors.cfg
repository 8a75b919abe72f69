SPECIFICATION Spec
CONSTANTS
    main = main
    t1 = t1
    t2 = t2
    Threads = {main, t1, t2}
    Main = main
    Mutexes = {}
    Condvars = {}
    Values = {inert, err}
    Inert = inert
    ErrorObj = err
    MaxCount = 1
    SharesContinuations = TRUE
    Nil = nil
PROPERTIES ErrorsAreMarked
CHECK_DEADLOCK FALSE
