CONSTANTS
    Starts <- MCStarts
    Indexes <- MCIndexes
    MaxFixint = 3
SPECIFICATION ArraySpec
INVARIANTS ListsAsReported NoMarksLeft ArraysAsReported EqualIsStructural ImmutableForever
CHECK_DEADLOCK FALSE
