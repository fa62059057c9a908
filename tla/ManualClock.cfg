CONSTANTS
    s1 = s1
    s2 = s2
    s3 = s3
    s4 = s4
    Sleeps = {s1, s2, s3, s4}
    Cancellable = {s1, s2, s3, s4}
    Durations <- MCDurations
    Steps <- MCSteps
    Micro = 1
    MaxGap = 0
    MaxTime = 5
SPECIFICATION Spec
SYMMETRY Symmetry
INVARIANTS
    TypeOK
    WokenInOrder
PROPERTIES
    ImplementsClock
