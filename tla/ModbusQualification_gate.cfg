CONSTANTS
    Window = 2
    MinSlots = 2
    MaxAttempts = 2
    LastTick = 6
    MaxFaults = 2
SPECIFICATION Spec
INVARIANTS
    TypeOK
    IdentifierNamesOneBoot
    QualifiedIsUnbroken
    UndisturbedQualifies
    OneSnapshotPerRun
CHECK_DEADLOCK FALSE
