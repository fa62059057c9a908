CONSTANTS
    c1 = c1
    c2 = c2
    c3 = c3
    c4 = c4
    Calls = {c1, c2, c3, c4}
    Cancellable = {c1, c2, c3, c4}
    Permits = {0, 1}
    Timeouts = {5, 20}
    Options <- MCOptions
    Lead = 1
    MaxDelay = 10
    MaxDepth = 2
    Waits = {1, 2, 3, 4, 5, 6, 7, 8, 9, 10}
    Micro = 2
    MaxGap = 1
    MaxTime = 11
    None = None
SPECIFICATION LimiterSpec
SYMMETRY Symmetry
INVARIANTS
    AgreedWaitKept
    GrantIsTicket
PROPERTIES
    ImplementsAdmission
