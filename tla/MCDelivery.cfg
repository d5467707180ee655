SPECIFICATION FairSpec
CONSTANTS
    s1 = s1  s2 = s2  s3 = s3  c1 = c1  c2 = c2
    None = None
    Servers = {s1, s2, s3}
    Children = {c1, c2}
    MaxDeaths = 2
    MaxFaults = 2
INVARIANTS
    ReceiptAgrees
    LiveRunStays
PROPERTIES
    PromiseKept
    DeliverySettles
CHECK_DEADLOCK FALSE
