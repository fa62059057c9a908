CONSTANTS
    c1 = c1
    c2 = c2
    c3 = c3
    Calls = {c1, c2, c3}
    Cancellable = {c1, c2, c3}
    Waits = {1, 3}
    Micro = 2
    MaxGap = 1
    MaxTime = 9
    None = None
SPECIFICATION Spec
INVARIANT SingleTimer
