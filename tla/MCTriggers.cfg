SPECIFICATION FairSpec
CONSTANTS
    k1 = k1  k2 = k2  s1 = s1  s2 = s2
    Keys = {k1}
    Schedulers = {s1}
    Default <- MCDefault
    Override <- MCOverride
    Day = 4
    SingleOwner = TRUE
    Horizon = 4
    MaxStarts = 2
    MaxEdits = 1
    MaxCrashes = 1
    MaxFailures = 1
    NoKey = NoKey
    NoOne = NoOne
INVARIANTS
    SingleFlight
PROPERTIES
    ClaimsAreSettled
    OwedFires
CHECK_DEADLOCK FALSE
