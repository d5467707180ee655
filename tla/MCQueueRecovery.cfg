SPECIFICATION FairSpec
CONSTANTS
    w1 = w1  w2 = w2  req = req  kid1 = kid1  kid2 = kid2  pool = pool  old = old
    daemon = daemon  id1 = id1  id2 = id2  none = none
    RequestIds = {}
    PoolIds = {pool}
    ChildIds = {kid1, kid2}
    LegacyIds = {old}
    Workers = {w1}
    Serves <- MCServes
    PathOf <- MCPathOf
    DaemonOf <- MCDaemonOf
    WorkerIdOf <- MCSharedWorkerIdOf
    Blank = none
    SharedId = SharedId
    LeaseTicks = 1
    MaxNodeTicks = 0
    MaxLineage = 1
    MaxActive = 2
    MaxRows = 2
    MaxFaults = 1
    NoRow = NoRow
    NoTask = NoTask
INVARIANTS
    LineageWithinCap
    NoDuplicateIds
PROPERTIES
    EveryTaskSettles
