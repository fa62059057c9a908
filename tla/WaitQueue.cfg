CONSTANTS
    c1 = c1
    c2 = c2
    c3 = c3
    Calls = {c1, c2, c3}
    Cancellable = {c1, c2}
    Waits = {1, 3}
    Micro = 2
    MaxGap = 1
    MaxTime = 7
    None = None
SPECIFICATION FairSpec
INVARIANTS
    TypeOK
    HeadIsCovered
    QueueMatchesCallers
PROPERTIES
    ArrivalOrder
    ImplementsHoldingLine
    EveryoneLeaves
CHECK_DEADLOCK FALSE
