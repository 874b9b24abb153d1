CONSTANTS
    MaxGen = 3
    Retention = 1
SPECIFICATION FairSpec
PROPERTIES
    GoodBackupOutlived
