CONSTANTS
    FirstDay = 1
    LastDay = 2
    Window = 2
    Hours = 2
    Oddities <- MCNoOddity
    QueueDays <- MCNoDay
SPECIFICATION Spec
INVARIANTS
    PastDaysAreComplete
