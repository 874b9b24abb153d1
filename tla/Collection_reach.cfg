CONSTANTS
    FirstDay = 3
    LastDay = 3
    Window = 2
    Hours = 2
    Oddities <- MCMalformed
    QueueDays <- MCNoDay
SPECIFICATION FairSpec
PROPERTIES
    WindowIsCollected
