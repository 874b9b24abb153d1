CONSTANTS
    FirstDay = 2
    LastDay = 3
    Window = 2
    Hours = 2
    Oddities <- MCMalformed
    QueueDays <- MCOldestDay
SPECIFICATION Spec
INVARIANTS
    TypeOK
    RecordsHaveEvidence
    BackfillLeavesNoGap
