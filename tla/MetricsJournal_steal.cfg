CONSTANTS
    Slot <- MCTwoJobs
    Generations = 2
    MaxRecords = 1
    SlowHolders = FALSE
    MaxAppends = 2
    MaxCrashes = 1
SPECIFICATION Spec
INVARIANTS
    OneRecorder
