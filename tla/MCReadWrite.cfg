SPECIFICATION MCSpec
CONSTANTS
    Threads = {t1}
    p1 = p1
    Pairs = {p1, p2, p3}
    Written = {p1}
    Strings = {s1}
    Scalars = {nil}
    Nil = nil
    PortKinds = {"file"}
    EOF = eof
    None = none
SYMMETRY Symmetry
INVARIANTS RoundTrip LeavesNothing
CHECK_DEADLOCK FALSE
