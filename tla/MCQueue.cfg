SPECIFICATION Spec
CONSTANTS
    w1 = w1  w2 = w2  req = req  kid1 = kid1  kid2 = kid2  pool = pool  old = old
    daemon = daemon  id1 = id1  id2 = id2  none = none
    RequestIds = {req}
    PoolIds = {pool}
    ChildIds = {kid1}
    LegacyIds = {old}
    Workers = {w1, w2}
    Serves <- MCServes
    PathOf <- MCPathOf
    DaemonOf <- MCDaemonOf
    WorkerIdOf <- MCWorkerIdOf
    Blank = none
    SharedId = SharedId
    LeaseTicks = 2
    MaxNodeTicks = 1
    MaxLineage = 1
    MaxActive = 2
    MaxRows = 1
    MaxFaults = 2
    NoRow = NoRow
    NoTask = NoTask
INVARIANTS
    OneExecutor
    SettleFindsNoPendingRow
    DirectRunsOnce
PROPERTIES
    NoLiveClaimReclaimed
    CancelKept
    KeepsLedger
