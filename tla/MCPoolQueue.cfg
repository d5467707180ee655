SPECIFICATION Spec
CONSTANTS
    a = a  b = b  l1 = l1  l2 = l2  p1 = p1  p2 = p2
    NoRun = NoRun  NoLease = NoLease
    Runs = {a, b}
    Direct = {}
    Cancellable = {a, b}
    Leases = {l1, l2}
    Procs = {p1}
    PoolLeases = 1
    MaxBoots = 2
    Resumable = {}
    MaxExpiries = 0
    MaxFaults = 0
SYMMETRY WaitersAlike
INVARIANTS
    HolderKeepsLock
    MountedIntact
    StartedOnce
PROPERTIES
    ServedInOrder
    SettledStays
CHECK_DEADLOCK FALSE
