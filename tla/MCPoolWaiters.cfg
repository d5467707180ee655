SPECIFICATION FairSpec
CONSTANTS
    a = a  b = b  l1 = l1  l2 = l2  p1 = p1  p2 = p2
    NoRun = NoRun  NoLease = NoLease
    Runs = {a, b}
    Direct = {a}
    Cancellable = {}
    Leases = {l1}
    Procs = {p1}
    PoolLeases = 1
    MaxBoots = 2
    Resumable = {b}
    MaxExpiries = 0
    MaxFaults = 1
PROPERTIES
    WaitersAreAnswered
    WorkspaceComesBack
CHECK_DEADLOCK FALSE
