SPECIFICATION Spec
CONSTANTS
    w1 = w1  w2 = w2  req = req  kid1 = kid1  kid2 = kid2  pool = pool  old = old
    daemon = daemon  id1 = id1  id2 = id2  none = none
    RequestIds = {req}
    PoolIds = {}
    ChildIds = {}
    LegacyIds = {}
    Workers = {w1}
    Serves <- MCServes
    PathOf <- MCPathOf
    DaemonOf <- MCDaemonOf
    WorkerIdOf <- MCWorkerIdOf
    Blank = none
    SharedId = SharedId
    LeaseTicks = 2
    MaxNodeTicks = 1
    MaxLineage = 1
    MaxActive = 2
    MaxRows = 1
    MaxFaults = 0
    NoRow = NoRow
    NoTask = NoTask
PROPERTIES
    CanceledWorkNotAttested
