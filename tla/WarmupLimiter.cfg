CONSTANTS
    c1 = c1
    c2 = c2
    c3 = c3
    Calls = {c1, c2, c3}
    Cancellable = {c1, c2, c3}
    Permits = {0, 1, 2, 5}
    Timeouts = {0, 5}
    Options <- MCOptions
    MaxSafe = 31
    Grain = 2
    Micro = 2
    MaxGap = 1
    MaxTime = 14
SPECIFICATION Spec
SYMMETRY Symmetry
INVARIANTS
    TypeOK
    NoFasterThanCold
    AreaIsIntegral
    OneCallIsExact
    SlotBeforeDeadline
    WakesAtSlot
PROPERTIES
    ImplementsAdmission
