CONSTANTS
    c1 = c1
    c2 = c2
    c3 = c3
    Calls = {c1, c2, c3}
    Cancellable = {c1}
    Permits = {1, 2}
    Timeouts = {0, 9}
    Routes <- MCRoutes
    Interval = 3
    MaxDelay = 3
    MaxDepth = 1
    Waits = {1, 2, 3}
    Micro = 2
    Milli = 2
    Second = 4
    MaxGap = 0
    MaxTime = 8
    None = None
SPECIFICATION AdaptersSpec
INVARIANT RetryIsTimely
PROPERTIES
    ZeroMeansOverdue
    AnswersAreEarned
    EveryoneAnswered
CHECK_DEADLOCK FALSE
