CONSTANTS
    Sleeps <- MCSleeps
    Cancellable = {}
    Durations = {}
    Steps = {}
    Options <- MCOptions
    Capacity = 2
    Window = 8
    Limit = 2
    MaxDelay = 10
    Micro = 2
    MaxGap = 0
    Sizes = {1, 3}
    Moments = {0, 1, 4, 7, 14}
    StepMicros = 3
    MaxMicros = 14
    MaxTime = 60
SPECIFICATION DriveSpec
INVARIANTS
    AdmitsWithinRate
    GrantsToTheStep
PROPERTY Finishes
