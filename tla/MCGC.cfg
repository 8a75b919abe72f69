SPECIFICATION Spec
CONSTANTS
    b1 = b1
    b2 = b2
    b3 = b3
    b4 = b4
    b5 = b5
    b6 = b6
    b7 = b7
    Addr = {b1, b2, b3, b4}
    Contents = {0, 3}
    NameKinds = {"symbol", "keyword"}
    Hash <- MCHash
    MINSTRTABSIZE = 1
    gcpause = 2
    MaxCalls = 6
    None = None
    Free = Free
SYMMETRY Symmetry
INVARIANTS NoDangling TableOK
CHECK_DEADLOCK FALSE
