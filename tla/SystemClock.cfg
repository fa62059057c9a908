CONSTANTS
    s1 = s1
    s2 = s2
    Sleeps = {s1, s2}
    Cancellable = {s1}
    Durations <- MCDurations
    Milli = 3
    MaxTimeoutMs = 2
    Micro = 1
    MaxGap = 1
    MaxTime = 22
    None = None
SPECIFICATION FairSystemSpec
INVARIANTS
    SystemTypeOK
    ChecksAreFew
PROPERTIES
    ImplementsClock
    EverySleepEnds
CHECK_DEADLOCK FALSE
