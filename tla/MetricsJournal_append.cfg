CONSTANTS
    Slot <- MCTwoJobs
    Generations = 2
    MaxRecords = 1
    SlowHolders = TRUE
    MaxAppends = 4
    MaxCrashes = 2
SPECIFICATION FairSpec
INVARIANTS
    TypeOK
    OneRecorderUntilStale
    NewestKeptWithoutHole
    FilesAreBounded
    GenerationsAreKept
PROPERTIES
    AbandonedIsRecovered
