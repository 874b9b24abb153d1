CONSTANTS
    Job <- MCJob
    Kind <- MCKind
    Steps <- MCSteps
    MaxKills = 1
SPECIFICATION FairSpec
INVARIANTS
    TypeOK
    LockHasOneOwner
    OneWriterUntilKill
    MetricTellsTheRun
    LockHasLiveMaker
PROPERTIES
    OnlyOwnerRemovesLock
    ImplementsSharedLock
    LockIsReleased
