SPECIFICATION Spec
CONSTANTS
    Threads = {t1, t2}
    Ports = {stdin, stdout, p1, p2}
    Stdin = stdin
    Stdout = stdout
    Kinds = {"file", "string"}
    PortUsers = {t1}
    Text <- TwoData
    Letter = a
    Newline = nl
    Buffer = 1
    MaxHeld = 1
    MaxFrames = 1
    MaxWritten = 2
    EOF = eof
    None = none
SYMMETRY Symmetry
INVARIANTS FilesFollowPorts OpenWhileUsed ReadInOrder
