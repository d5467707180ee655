SPECIFICATION FairSpec
CONSTANTS
    c1 = c1  c2 = c2  wake = wake  beat = beat
    None = None
    Consumers = {c1, c2}
    Wakes = {wake}
    Cadences = {beat}
    Overlap <- MCOverlap
    NotBefore <- MCNotBefore
    Period = 2
    Retry = 1
    MaxAttempts = 2
    Horizon = 2
    MaxUpsets = 1
INVARIANTS
    OneRunPerAgent
    WorkRunsOnce
    AttemptsWithinMax
PROPERTIES
    WakeSettles
CHECK_DEADLOCK FALSE
