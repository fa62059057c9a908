CONSTANTS
    c1 = c1
    c2 = c2
    c3 = c3
    c4 = c4
    Calls = {c1, c2, c3, c4}
    Cancellable = {c1, c2, c3, c4}
    Permits = {0, 1, 2}
    Timeouts = {2, 9}
    Interval = 3
    MaxDelay = 6
    MaxDepth = 2
    Waits = {1, 2, 3, 4, 5, 6}
    Micro = 2
    MaxGap = 1
    MaxTime = 12
    None = None
SPECIFICATION PacerSpec
SYMMETRY Symmetry
INVARIANTS
    SlotsDisjoint
    NeverEarly
    DepthBounded
    BacklogFitsDelay
PROPERTIES
    OvertakesOnlyTheOverdue
    ImplementsAdmission
