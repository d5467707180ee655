SPECIFICATION Spec
CONSTANTS
    a = a  b = b  l1 = l1  l2 = l2  p1 = p1  p2 = p2
    NoRun = NoRun  NoLease = NoLease
    Runs = {a}
    Direct = {a}
    Cancellable = {}
    Leases = {l1, l2}
    Procs = {p1, p2}
    PoolLeases = 1
    MaxBoots = 2
    Resumable = {}
    MaxExpiries = 2
    MaxFaults = 1
SYMMETRY ProcsAlike
INVARIANTS
    AvailableIsGone
PROPERTIES
    KeepsWorkspaceLedger
CHECK_DEADLOCK FALSE
