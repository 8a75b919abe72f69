CONSTANTS
    Starts <- MCStarts
    Indexes <- MCIndexes
    MaxFixint = 3
SPECIFICATION ArraySpec
INVARIANTS CopiesThePart
CHECK_DEADLOCK FALSE
