CONSTANTS
    MaxGen = 3
    Retention = 2
SPECIFICATION Spec
INVARIANTS
    TypeOK
    KeepsOnlyComplete
PROPERTIES
    GoodBackupOutlived
    CleanRunIsTidy
