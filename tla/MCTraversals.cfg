CONSTANTS
    Jobs <- MCJobs
    MaxPairs = 7
    MaxPath = 3
    MaxCaptured = 2
    MaxEntries = 2
    MaxSets = 1
SPECIFICATION Spec
INVARIANTS CallsFollowPath ResultFollowsPath TailContexts
CHECK_DEADLOCK FALSE
