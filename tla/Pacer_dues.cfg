CONSTANTS
    c1 = c1
    c2 = c2
    c3 = c3
    Calls = {c1, c2, c3}
    Cancellable = {c1, c2, c3}
    Permits = {0, 1, 2}
    Timeouts = {2, 9}
    Interval = 1
    MaxDelay = 5
    MaxDepth = 2
    Waits = {1, 2, 3, 4, 5}
    Micro = 2
    MaxGap = 1
    MaxTime = 10
    None = None
SPECIFICATION PacerSpec
INVARIANT DueInOrder
