SPECIFICATION Spec
CONSTANTS
    x = x
    y = y
    k = k
    Symbols = {x}
    Standard = {x}
    Keys = {k}
    NoKey = none
    Datum = datum
    NoObject = nothing
    MaxTree = 1
    MaxObjects = 4
    MaxDepth = 2
INVARIANTS LookupIsDepthFirst GroundProtected FreshScope
CHECK_DEADLOCK FALSE
