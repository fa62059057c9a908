CONSTANTS
    WindowLength = 12
    BucketCount = 3
    Counts = {0, 2}
    MaxRecords = 3
    Micro = 2
    MaxGap = 1
    MaxTime = 28
SPECIFICATION Spec
INVARIANTS
    TypeOK
    SnapshotIsLog
CHECK_DEADLOCK FALSE
