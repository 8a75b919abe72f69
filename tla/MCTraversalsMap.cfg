CONSTANTS
    Jobs <- MapJobs
    MaxPairs = 7
    MaxPath = 3
    MaxCaptured = 2
    MaxEntries = 2
    MaxSets = 0
SPECIFICATION Spec
INVARIANT MapListsItsCalls
CHECK_DEADLOCK FALSE
